---- MODULE Spec2Model ----
(***************************************************************************)
(* Model of the continuous measurement engine of N64-SysInfo               *)
(* (src/src/main.c): the CPU-frequency, memory-bandwidth and FPS sampling  *)
(* windows, the scanline sampler and the per-frame update_measurements.    *)
(*                                                                         *)
(* Numbers.  TLC integers are 32-bit signed, so the 32-bit COUNT register  *)
(* and the uint32_t cycle arithmetic are modelled with the same wrapping   *)
(* operations at a width of CountBits bits (Modulus = 2^CountBits).        *)
(* C floats are modelled as exact non-negative rationals [n, d] in lowest  *)
(* terms, with [1, 0] for +infinity and [0, 0] for NaN; binary32 rounding  *)
(* is not modelled.  frames_counted is a natural number capped by          *)
(* MaxFrames, far below the point where a uint32_t frame counter wraps.    *)
(***************************************************************************)
EXTENDS Integers, Naturals, Sequences, FiniteSets, TLC

VARIABLES
    tv_type,        \* what get_tv_type() returns on this console
    measurements,   \* static SystemMeasurements measurements
    cpu_win,        \* statics of measure_cpu_frequency_continuous
    bw_win,         \* static of measure_memory_bandwidth
    fps_win,        \* statics of calculate_fps
    twin,           \* a second console: same ticks and reads, other TV type
    ev,             \* what the last update_measurements call did
    hist,           \* history of firings and of published estimates
    ar,             \* the inputs and results of one cycle-arithmetic run
    current_tab,    \* Tab current_tab of main
    keys            \* the keys read in main's last loop iteration

vars ==
    <<tv_type, measurements, cpu_win, bw_win, fps_win, twin, ev, hist, ar,
      current_tab, keys>>

engineVars ==
    <<tv_type, measurements, cpu_win, bw_win, fps_win, twin, ev, hist,
      current_tab, keys>>

----------------------------------------------------------------------------
(* Bounds *)

CountBits == 24         \* modelled width of COUNT and of the uint32_t cycle values
MaxFrames == 185        \* update_measurements calls explored

Modulus == 2 ^ CountBits

----------------------------------------------------------------------------
(* Program constants *)

CpuPeriod_Longer == 5 + 1   \* a window that needs one more elapsed frame

CpuPeriod == 5              \* if (frames_elapsed >= 5)
BwPeriod_OffByOne == 30 + 1 \* a faulty gate: <= 30 instead of < 30
BwPeriod == 30              \* frames_counted - last_measure_frame < 30
FpsPeriod == 60             \* frames_elapsed >= 60, frames_counted >= 60
FpsModulo == 60             \* frames_counted % 60 == 0
BwModulo == 30              \* frames_counted % 30 == 0
CountHalfRate == 2          \* count_delta * 2
BW_TEST_SIZE == 4096
MegaHz == 1000000           \* 1000000.0f
MegaByte == 1048576         \* 1024.0f * 1024.0f
ScanlineMask == 1023        \* & 0x3FF
InitialBandwidth == 500     \* measurements.rdram_bandwidth = 500

TvTypes == {"TV_PAL", "TV_NTSC", "TV_MPAL"}

----------------------------------------------------------------------------
(* Floats as exact rationals *)

RECURSIVE GCD(_, _)
GCD(a, b) == IF b = 0 THEN a ELSE GCD(b, a % b)

Rat(n, d) ==
    IF d = 0 THEN [n |-> IF n = 0 THEN 0 ELSE 1, d |-> 0]
    ELSE LET g == GCD(n, d) IN [n |-> n \div g, d |-> d \div g]

FloatOf(i) == [n |-> i, d |-> 1]        \* (float)i

FZero == FloatOf(0)
FInf == [n |-> 1, d |-> 0]
FNaN == [n |-> 0, d |-> 0]

IsNaN(a) == a.n = 0 /\ a.d = 0
IsInf(a) == a.n # 0 /\ a.d = 0
IsFinite(a) == a.d # 0

\* a * b
FMul(a, b) ==
    IF IsNaN(a) \/ IsNaN(b) THEN FNaN
    ELSE IF IsInf(a) \/ IsInf(b)
         THEN (IF a.n = 0 \/ b.n = 0 THEN FNaN ELSE FInf)
    ELSE LET g1 == GCD(a.n, b.d)
             g2 == GCD(b.n, a.d)
         IN  [n |-> (a.n \div g1) * (b.n \div g2),
              d |-> (a.d \div g2) * (b.d \div g1)]

\* a / b
FDiv(a, b) ==
    IF IsNaN(a) \/ IsNaN(b) THEN FNaN
    ELSE IF IsInf(b) THEN (IF IsInf(a) THEN FNaN ELSE FZero)
    ELSE IF b.n = 0 THEN (IF a.n = 0 THEN FNaN ELSE FInf)
    ELSE FMul(a, [n |-> b.d, d |-> b.n])

\* an/ad < bn/bd for ad, bd > 0, by comparing the continued fractions
\* (the cross products would not fit a machine integer)
RECURSIVE FracLess(_, _, _, _)
FracLess(an, ad, bn, bd) ==
    LET qa == an \div ad
        qb == bn \div bd
        ra == an % ad
        rb == bn % bd
    IN  IF qa # qb THEN qa < qb
        ELSE IF rb = 0 THEN FALSE
        ELSE IF ra = 0 THEN TRUE
        ELSE FracLess(bd, rb, ad, ra)

\* a < b
FLess(a, b) ==
    IF IsNaN(a) \/ IsNaN(b) THEN FALSE
    ELSE IF IsInf(a) THEN FALSE
    ELSE IF IsInf(b) THEN TRUE
    ELSE FracLess(a.n, a.d, b.n, b.d)

FGreater(a, b) == FLess(b, a)

NominalMHz == Rat(9375, 100)    \* 93.75f

----------------------------------------------------------------------------
(* Hardware inputs *)

\* values read_c0_count() may return: COUNT runs freely between two reads
CountSamples == {0, Modulus \div 4}

\* counts that elapse during the timed 4KB copy
BwElapsedSamples == {0, 1024}

\* raw values of the VI_CURRENT register
RawScanlineSamples == {6, 2049}

\* what the conversion of a non-finite float to uint32_t may leave in the register
CastOutcomes == {0, Modulus - 1}

----------------------------------------------------------------------------
(* Pure functions of the engine *)

get_tv_refresh_rate(tv) ==
    CASE tv = "TV_PAL" -> 50
      [] tv = "TV_NTSC" -> 60
      [] tv = "TV_MPAL" -> 60
      [] OTHER -> 60

\* a faulty delta that takes the distance of the two samples
CountDelta_Distance(current_count, start_count) ==
    IF current_count >= start_count
    THEN current_count - start_count ELSE start_count - current_count

\* uint32_t count_delta = current_count - start_count;
CountDelta(current_count, start_count) ==
    (current_count - start_count + Modulus) % Modulus

\* uint32_t cpu_cycles = count_delta * 2;  (COUNT is half CPU speed)
CpuCycles(count_delta) ==
    (count_delta * CountHalfRate) % Modulus

\* ((float)cpu_cycles / (float)frames_elapsed) * frame_rate / 1000000.0f
CpuFreq(cpu_cycles, frames_elapsed, frame_rate) ==
    FDiv(FMul(FDiv(FloatOf(cpu_cycles), FloatOf(frames_elapsed)),
              FloatOf(frame_rate)),
         FloatOf(MegaHz))

\* (float)cycles / (cpu_freq_current * 1000000.0f)
TimeSeconds(cycles, cpu_freq_current) ==
    FDiv(FloatOf(cycles), FMul(cpu_freq_current, FloatOf(MegaHz)))

\* (BW_TEST_SIZE / time_seconds) / (1024.0f * 1024.0f)
BandwidthMbps(time_seconds) ==
    FDiv(FDiv(FloatOf(BW_TEST_SIZE), time_seconds), FloatOf(MegaByte))

\* (uint32_t)f for a finite f; a non-finite f has no defined result
FloatToU32(f) == f.n \div f.d

\* frames_elapsed / time_seconds
FpsValue(frames_elapsed, time_seconds) ==
    FDiv(FloatOf(frames_elapsed), time_seconds)

\* (*vi_current >> 1) & 0x3FF
Scanline(raw) == (raw \div 2) % (ScanlineMask + 1)

----------------------------------------------------------------------------
(* The engine: one record per console                                      *)
(*   e.measurements, e.cpu_win, e.bw_win, e.fps_win                        *)

\* a faulty minimum that is only ever set from the zero sentinel
TrackMin_Stale(cpu_freq_min, cpu_freq) ==
    IF cpu_freq_min = FZero THEN cpu_freq ELSE cpu_freq_min

\* min/max tracking of measure_cpu_frequency_continuous
TrackMin(cpu_freq_min, cpu_freq) ==
    IF cpu_freq_min = FZero \/ FLess(cpu_freq, cpu_freq_min)
    THEN cpu_freq ELSE cpu_freq_min

TrackMax(cpu_freq_max, cpu_freq) ==
    IF FGreater(cpu_freq, cpu_freq_max) THEN cpu_freq ELSE cpu_freq_max

\* a faulty arming that also publishes an estimate from the zero-length window
ArmCpuWindow_Publishing(e, current_count) ==
    [e EXCEPT !.cpu_win = [measure_start_count |-> current_count,
                           last_frame_count |-> e.measurements.frames_counted,
                           measuring |-> 1],
              !.measurements.cpu_freq_current = FZero]

\* if (!measuring) { measure_start_count = ...; last_frame_count = ...; measuring = 1; }
ArmCpuWindow(e, current_count) ==
    [e EXCEPT !.cpu_win = [measure_start_count |-> current_count,
                           last_frame_count |-> e.measurements.frames_counted,
                           measuring |-> 1]]

\* void measure_cpu_frequency_continuous(void)
measure_cpu_frequency_continuous(e, tv, current_count) ==
    LET m == e.measurements
        w == e.cpu_win
    IN
    IF w.measuring = 0
    THEN [eng |-> ArmCpuWindow(e, current_count),
          armed |-> TRUE, fired |-> FALSE]
    ELSE
    LET frames_elapsed == m.frames_counted - w.last_frame_count IN
    IF frames_elapsed >= CpuPeriod
    THEN LET count_delta == CountDelta(current_count, w.measure_start_count)
             cpu_cycles == CpuCycles(count_delta)
             frame_rate == get_tv_refresh_rate(tv)
             cpu_freq == CpuFreq(cpu_cycles, frames_elapsed, frame_rate)
         IN  [eng |-> [e EXCEPT
                 !.measurements.cpu_freq_current = cpu_freq,
                 !.measurements.cpu_cycles_per_frame = cpu_cycles \div frames_elapsed,
                 !.measurements.cpu_freq_min = TrackMin(m.cpu_freq_min, cpu_freq),
                 !.measurements.cpu_freq_max = TrackMax(m.cpu_freq_max, cpu_freq),
                 !.cpu_win.measuring = 0],
              armed |-> FALSE, fired |-> TRUE]
    ELSE [eng |-> e, armed |-> FALSE, fired |-> FALSE]

\* a faulty sampler that keeps the scanline it sampled first
measure_video_scanline_Memoised(e, raw) ==
    IF e.measurements.frames_counted > 1 THEN e
    ELSE [e EXCEPT !.measurements.current_scanline = Scanline(raw)]

\* void measure_video_scanline(void)
measure_video_scanline(e, raw) ==
    [e EXCEPT !.measurements.current_scanline = Scanline(raw)]

\* if (measurements.cpu_freq_current > 0) { ... rdram_bandwidth = (uint32_t)bandwidth_mbps; }
\* the value of rdram_bandwidth afterwards, whether it was written, and
\* whether the conversion was one of a non-finite float
PublishBandwidth(rdram_bandwidth, cpu_freq_current, cycles, cast) ==
    IF FGreater(cpu_freq_current, FZero)
    THEN LET time_seconds == TimeSeconds(cycles, cpu_freq_current)
             bandwidth_mbps == BandwidthMbps(time_seconds)
         IN  [value |-> IF IsFinite(bandwidth_mbps)
                        THEN FloatToU32(bandwidth_mbps) ELSE cast,
              published |-> TRUE,
              undefined |-> ~IsFinite(bandwidth_mbps)]
    ELSE [value |-> rdram_bandwidth, published |-> FALSE, undefined |-> FALSE]

\* void measure_memory_bandwidth(void); cast is the outcome of the
\* float-to-integer conversion when bandwidth_mbps is not finite
measure_memory_bandwidth(e, count_start, count_end, cast) ==
    LET m == e.measurements IN
    IF m.frames_counted - e.bw_win.last_measure_frame < BwPeriod
    THEN [eng |-> e, passed |-> FALSE, published |-> FALSE, undefined |-> FALSE]
    ELSE
    LET e1 == [e EXCEPT !.bw_win.last_measure_frame = m.frames_counted]
        cycles == CpuCycles(CountDelta(count_end, count_start))
        p == PublishBandwidth(m.rdram_bandwidth, m.cpu_freq_current, cycles, cast)
    IN  [eng |-> [e1 EXCEPT !.measurements.rdram_bandwidth = p.value],
         passed |-> TRUE, published |-> p.published, undefined |-> p.undefined]

\* a faulty startup test that lets the activation at frame 60 fall through
FpsFirstActivation_Late(e) ==
    e.fps_win.first_sample = 1 /\ e.measurements.frames_counted > FpsPeriod

\* if (first_sample && measurements.frames_counted >= 60)
FpsFirstActivation(e) ==
    e.fps_win.first_sample = 1 /\ e.measurements.frames_counted >= FpsPeriod

\* a faulty guard that computes the FPS also from a zero frequency
FpsComputable_Unguarded(m, frames_elapsed) ==
    frames_elapsed > 0

\* if (measurements.cpu_freq_current > 0 && frames_elapsed > 0)
FpsComputable(m, frames_elapsed) ==
    FGreater(m.cpu_freq_current, FZero) /\ frames_elapsed > 0

\* void calculate_fps(void)
calculate_fps(e, current_count) ==
    LET m == e.measurements
        w == e.fps_win
    IN
    IF FpsFirstActivation(e)
    THEN [eng |-> [e EXCEPT !.fps_win =
                        [last_fps_frame |-> m.frames_counted,
                         last_fps_count |-> current_count,
                         first_sample |-> 0]],
          armed |-> TRUE, fired |-> FALSE, published |-> FALSE,
          frames_elapsed |-> 0]
    ELSE
    LET frames_elapsed == m.frames_counted - w.last_fps_frame IN
    IF frames_elapsed >= FpsPeriod
    THEN LET count_delta == CountDelta(current_count, w.last_fps_count)
             cpu_cycles == CpuCycles(count_delta)
             ok == FpsComputable(m, frames_elapsed)
             time_seconds == TimeSeconds(cpu_cycles, m.cpu_freq_current)
             e1 == IF ok
                   THEN [e EXCEPT !.measurements.actual_fps =
                                      FpsValue(frames_elapsed, time_seconds)]
                   ELSE e
         IN  [eng |-> [e1 EXCEPT !.fps_win.last_fps_frame = m.frames_counted,
                                 !.fps_win.last_fps_count = current_count],
              armed |-> FALSE, fired |-> TRUE, published |-> ok,
              frames_elapsed |-> frames_elapsed]
    ELSE [eng |-> e, armed |-> FALSE, fired |-> FALSE, published |-> FALSE,
          frames_elapsed |-> 0]

\* the engine after a call of function fn has been entered: e.calls is the
\* sequence of the functions update_measurements has called so far
Called(e, fn) == [e EXCEPT !.calls = Append(@, fn)]

\* a faulty update that counts the frame twice
IncrementFrames_Twice(e) == [e EXCEPT !.measurements.frames_counted = @ + 2]

\* measurements.frames_counted++;
IncrementFrames(e) == [e EXCEPT !.measurements.frames_counted = @ + 1]

\* the update loop as TECHNICAL.md prints it: bandwidth before FPS
update_measurements_BandwidthFirst(e, tv, in) ==
    LET e0 == IncrementFrames([e EXCEPT !.calls = <<>>])
        frames == e0.measurements.frames_counted
        cpu == measure_cpu_frequency_continuous(
                   Called(e0, "measure_cpu_frequency_continuous"), tv, in.cpu_count)
        e1 == measure_video_scanline(Called(cpu.eng, "measure_video_scanline"), in.raw)
        bw_called == frames % BwModulo = 0
        bw == IF bw_called
              THEN measure_memory_bandwidth(Called(e1, "measure_memory_bandwidth"),
                                            in.bw_start, in.bw_end, in.cast)
              ELSE [eng |-> e1, passed |-> FALSE, published |-> FALSE,
                    undefined |-> FALSE]
        fps_called == frames % FpsModulo = 0
        fps == IF fps_called
               THEN calculate_fps(Called(bw.eng, "calculate_fps"), in.fps_count)
               ELSE [eng |-> bw.eng, armed |-> FALSE, fired |-> FALSE,
                     published |-> FALSE, frames_elapsed |-> 0]
    IN  [eng |-> fps.eng,
         ev |-> [cpu_armed |-> cpu.armed, cpu_fired |-> cpu.fired,
                 fps_called |-> fps_called, fps_armed |-> fps.armed,
                 fps_fired |-> fps.fired, fps_published |-> fps.published,
                 fps_frames_elapsed |-> fps.frames_elapsed,
                 bw_called |-> bw_called, bw_passed |-> bw.passed,
                 bw_published |-> bw.published, undefined |-> bw.undefined,
                 raw |-> in.raw, calls |-> fps.eng.calls]]

\* void update_measurements(void): in.cpu_count, in.fps_count, in.bw_start and
\* in.bw_end are the values the calls of read_c0_count() return, in.raw is
\* the VI_CURRENT register, in.cast the outcome of an undefined conversion
update_measurements(e, tv, in) ==
    LET e0 == IncrementFrames([e EXCEPT !.calls = <<>>])
        frames == e0.measurements.frames_counted
        cpu == measure_cpu_frequency_continuous(
                   Called(e0, "measure_cpu_frequency_continuous"), tv, in.cpu_count)
        e1 == measure_video_scanline(Called(cpu.eng, "measure_video_scanline"), in.raw)
        fps_called == frames % FpsModulo = 0
        fps == IF fps_called
               THEN calculate_fps(Called(e1, "calculate_fps"), in.fps_count)
               ELSE [eng |-> e1, armed |-> FALSE, fired |-> FALSE,
                     published |-> FALSE, frames_elapsed |-> 0]
        bw_called == frames % BwModulo = 0
        bw == IF bw_called
              THEN measure_memory_bandwidth(Called(fps.eng, "measure_memory_bandwidth"),
                                            in.bw_start, in.bw_end, in.cast)
              ELSE [eng |-> fps.eng, passed |-> FALSE, published |-> FALSE,
                    undefined |-> FALSE]
    IN  [eng |-> bw.eng,
         ev |-> [cpu_armed |-> cpu.armed, cpu_fired |-> cpu.fired,
                 fps_called |-> fps_called, fps_armed |-> fps.armed,
                 fps_fired |-> fps.fired, fps_published |-> fps.published,
                 fps_frames_elapsed |-> fps.frames_elapsed,
                 bw_called |-> bw_called, bw_passed |-> bw.passed,
                 bw_published |-> bw.published, undefined |-> bw.undefined,
                 raw |-> in.raw, calls |-> bw.eng.calls]]

----------------------------------------------------------------------------
(* State after main's initialisation (src/src/main.c:533-539) *)

InitMeasurements(tv) ==
    [cpu_freq_current |-> NominalMHz,
     cpu_freq_min |-> NominalMHz,
     cpu_freq_max |-> NominalMHz,
     cpu_cycles_per_frame |-> 0,
     rdram_bandwidth |-> InitialBandwidth,
     current_scanline |-> 0,
     actual_fps |-> FloatOf(get_tv_refresh_rate(tv)),
     frames_counted |-> 0]

InitEngine(tv) ==
    [measurements |-> InitMeasurements(tv),
     cpu_win |-> [measure_start_count |-> 0, last_frame_count |-> 0, measuring |-> 0],
     bw_win |-> [last_measure_frame |-> 0],
     fps_win |-> [last_fps_frame |-> 0, last_fps_count |-> 0, first_sample |-> 1],
     calls |-> <<>>]

\* the engine of this console, as one record
Engine ==
    [measurements |-> measurements, cpu_win |-> cpu_win,
     bw_win |-> bw_win, fps_win |-> fps_win, calls |-> <<>>]

\* the TV type of the second console: one with the other nominal rate
OtherTv(tv) == IF get_tv_refresh_rate(tv) = 60 THEN "TV_PAL" ELSE "TV_NTSC"

NoEvent ==
    [cpu_armed |-> FALSE, cpu_fired |-> FALSE, fps_called |-> FALSE,
     fps_armed |-> FALSE, fps_fired |-> FALSE, fps_published |-> FALSE,
     fps_frames_elapsed |-> 0, bw_called |-> FALSE, bw_passed |-> FALSE,
     bw_published |-> FALSE, undefined |-> FALSE, raw |-> 0, calls |-> <<>>]

NoHistory ==
    [cpu_fire |-> 0, cpu_prev |-> 0, fps_fire |-> 0, fps_prev |-> 0,
     fps_arm |-> 0, npub |-> 0, pub_min |-> FZero, pub_max |-> FZero]

ArithOff ==
    [pc |-> "off", start_count |-> 0, elapsed |-> 0, frames_elapsed |-> 0,
     end_count |-> 0, count_delta |-> 0, cpu_cycles |-> 0, cpu_freq |-> FZero,
     cpu_freq_current |-> FZero, rdram_bandwidth |-> 0, undefined |-> FALSE]

\* typedef enum { TAB_CPU, TAB_MEMORY, TAB_RCP, TAB_VIDEO, TAB_COUNT } Tab;
TAB_CPU == 0

TAB_MEMORY == 1

TAB_RCP == 2

TAB_VIDEO == 3

TAB_COUNT == 4

\* struct controller_data keys of an iteration that pressed nothing;
\* tab_before is the value of current_tab when the iteration began
NoKeys ==
    [C_left |-> FALSE, L |-> FALSE, C_right |-> FALSE, R |-> FALSE,
     start |-> FALSE, tab_before |-> TAB_CPU]

InitEngineVars ==
    /\ tv_type \in TvTypes
    /\ measurements = InitMeasurements(tv_type)
    /\ cpu_win = InitEngine(tv_type).cpu_win
    /\ bw_win = InitEngine(tv_type).bw_win
    /\ fps_win = InitEngine(tv_type).fps_win
    /\ twin = InitEngine(OtherTv(tv_type))
    /\ ev = NoEvent
    /\ current_tab = TAB_CPU
    /\ keys = NoKeys
    /\ hist = NoHistory

Init ==
    /\ InitEngineVars
    /\ ar = ArithOff

\* the history after a call that made frames_counted = frames
NextHistory(h, e, v) ==
    LET frames == e.measurements.frames_counted
        f == e.measurements.cpu_freq_current
    IN  [cpu_fire |-> IF v.cpu_fired THEN frames ELSE h.cpu_fire,
         cpu_prev |-> IF v.cpu_fired THEN h.cpu_fire ELSE h.cpu_prev,
         fps_fire |-> IF v.fps_fired THEN frames ELSE h.fps_fire,
         fps_prev |-> IF v.fps_fired THEN h.fps_fire ELSE h.fps_prev,
         fps_arm |-> IF v.fps_armed THEN frames ELSE h.fps_arm,
         npub |-> IF v.cpu_fired THEN h.npub + 1 ELSE h.npub,
         pub_min |-> IF v.cpu_fired /\ (h.npub = 0 \/ FLess(f, h.pub_min))
                     THEN f ELSE h.pub_min,
         pub_max |-> IF v.cpu_fired /\ (h.npub = 0 \/ FLess(h.pub_max, f))
                     THEN f ELSE h.pub_max]

\* the call update_measurements() with the hardware reads in
CallUpdate(in) ==
    \E r \in {update_measurements(Engine, tv_type, in)},
       t \in {update_measurements(twin, OtherTv(tv_type), in)} :
        /\ measurements' = r.eng.measurements
        /\ cpu_win' = r.eng.cpu_win
        /\ bw_win' = r.eng.bw_win
        /\ fps_win' = r.eng.fps_win
        /\ twin' = t.eng
        /\ ev' = r.ev
        /\ hist' = NextHistory(hist, r.eng, r.ev)

\* one iteration of main's loop calls update_measurements() once
UpdateMeasurements ==
    /\ measurements.frames_counted < MaxFrames
    /\ LET frames == measurements.frames_counted + 1
           fps_called == frames % FpsModulo = 0
           bw_called == frames % BwModulo = 0
       IN
       \E cpu_count \in CountSamples,
          raw \in RawScanlineSamples,
          fps_count \in (IF fps_called THEN CountSamples ELSE {0}),
          bw_start \in (IF bw_called THEN CountSamples ELSE {0}),
          bw_elapsed \in (IF bw_called THEN BwElapsedSamples ELSE {0}),
          cast \in (IF bw_called THEN CastOutcomes ELSE {0}) :
          LET in == [cpu_count |-> cpu_count, raw |-> raw,
                     fps_count |-> fps_count, bw_start |-> bw_start,
                     bw_end |-> (bw_start + bw_elapsed) % Modulus,
                     cast |-> cast]
          IN  CallUpdate(in)
    /\ UNCHANGED <<tv_type, ar, current_tab, keys>>

Next == UpdateMeasurements

Spec == Init /\ [][Next]_vars

----------------------------------------------------------------------------
(* The cycle arithmetic of one window, step by step                        *)
(* (src/src/main.c:141-145): a window starts at counter value start_count, *)
(* elapsed counts go by, and the window fires after frames_elapsed frames. *)

ArithStarts == {0, 1, Modulus \div 2, Modulus - (Modulus \div 4), Modulus - 1}

ArithElapsed ==
    {0, 1, 5, Modulus \div 4, (Modulus \div 2) - 1, Modulus \div 2,
     (Modulus \div 2) + 1, Modulus - 1}

ArithFrames == {5, 6}

InitArith ==
    /\ InitEngineVars
    /\ \E s \in ArithStarts, d \in ArithElapsed, f \in ArithFrames :
          ar = [ArithOff EXCEPT !.pc = "start", !.start_count = s,
                                !.elapsed = d, !.frames_elapsed = f]

\* read_c0_count() at the end of the window: COUNT has wrapped modulo its width
ArithRead ==
    /\ ar.pc = "start"
    /\ ar' = [ar EXCEPT !.pc = "read",
                        !.end_count = (ar.start_count + ar.elapsed) % Modulus]
    /\ UNCHANGED engineVars

\* uint32_t count_delta = current_count - measure_start_count;
ArithDelta ==
    /\ ar.pc = "read"
    /\ ar' = [ar EXCEPT !.pc = "delta",
                        !.count_delta = CountDelta(ar.end_count, ar.start_count)]
    /\ UNCHANGED engineVars

\* uint32_t cpu_cycles = count_delta * 2;
ArithCycles ==
    /\ ar.pc = "delta"
    /\ ar' = [ar EXCEPT !.pc = "cycles",
                        !.cpu_cycles = CpuCycles(ar.count_delta)]
    /\ UNCHANGED engineVars

\* float cpu_freq = ((float)cpu_cycles / (float)frames_elapsed) * frame_rate / 1000000.0f;
ArithFreq ==
    /\ ar.pc = "cycles"
    /\ ar' = [ar EXCEPT !.pc = "done",
                        !.cpu_freq = CpuFreq(ar.cpu_cycles, ar.frames_elapsed,
                                             get_tv_refresh_rate(tv_type))]
    /\ UNCHANGED engineVars

NextArith == ArithRead \/ ArithDelta \/ ArithCycles \/ ArithFreq

SpecArith == InitArith /\ [][NextArith]_vars

----------------------------------------------------------------------------
(* The bandwidth benchmark of one window, step by step                     *)
(* (src/src/main.c:191-206): the timed copy starts at counter value        *)
(* start_count and takes elapsed counts; cpu_freq_current is the estimate  *)
(* the CPU-frequency window left.                                          *)

BenchElapsed ==
    {0, 1024, 1280, 2048, Modulus \div 2, (Modulus \div 2) + 1024}

BenchFrequencies == {FZero, NominalMHz, FloatOf(100)}

InitBench ==
    /\ InitEngineVars
    /\ \E s \in ArithStarts, d \in BenchElapsed, f \in BenchFrequencies :
          ar = [ArithOff EXCEPT !.pc = "bench_start", !.start_count = s,
                                !.elapsed = d, !.cpu_freq_current = f,
                                !.rdram_bandwidth = InitialBandwidth]

\* uint32_t count_end = read_c0_count();
BenchRead ==
    /\ ar.pc = "bench_start"
    /\ ar' = [ar EXCEPT !.pc = "bench_read",
                        !.end_count = (ar.start_count + ar.elapsed) % Modulus]
    /\ UNCHANGED engineVars

\* uint32_t cycles = (count_end - count_start) * 2;
BenchCycles ==
    /\ ar.pc = "bench_read"
    /\ ar' = [ar EXCEPT !.pc = "bench_cycles",
                        !.count_delta = CountDelta(ar.end_count, ar.start_count),
                        !.cpu_cycles = CpuCycles(CountDelta(ar.end_count, ar.start_count))]
    /\ UNCHANGED engineVars

\* if (measurements.cpu_freq_current > 0) { ... }
BenchPublish ==
    /\ ar.pc = "bench_cycles"
    /\ \E cast \in CastOutcomes :
          \E p \in {PublishBandwidth(ar.rdram_bandwidth, ar.cpu_freq_current,
                                     ar.cpu_cycles, cast)} :
             ar' = [ar EXCEPT !.pc = "bench_done",
                              !.rdram_bandwidth = p.value,
                              !.undefined = p.undefined]
    /\ UNCHANGED engineVars

NextBench == BenchRead \/ BenchCycles \/ BenchPublish

SpecBench == InitBench /\ [][NextBench]_vars

----------------------------------------------------------------------------
(* Specification of the CPU revision lookup.  A 32-bit prid is kept as its
   two 16-bit halves, prid = hi * 2^16 + lo, so that all 32 bits are
   covered without leaving the checker's integer range. *)

HalfWord == 65536

ByteModulus == 256

\* uint8_t rev = prid & 0xFF;
LowByte(prid) == prid.lo % ByteModulus

\* a faulty lookup that switches on the unmasked low half-word
get_cpu_revision_Unmasked(prid) ==
    LET rev == prid.lo IN
    CASE rev = 0 -> "VR4300 Rev 1.0"
      [] rev = 1 -> "VR4300 Rev 2.0"
      [] rev = 2 -> "VR4300 Rev 3.0"
      [] OTHER -> "VR4300 Unknown"

\* const char* get_cpu_revision(uint32_t prid)
get_cpu_revision(prid) ==
    LET rev == LowByte(prid) IN
    CASE rev = 0 -> "VR4300 Rev 1.0"
      [] rev = 1 -> "VR4300 Rev 2.0"
      [] rev = 2 -> "VR4300 Rev 3.0"
      [] OTHER -> "VR4300 Unknown"

\* the prids tried: every low byte, under several settings of bits 8..31
PridLowHalves ==
    (0 .. (ByteModulus - 1))
        \cup {11 * ByteModulus + b : b \in {0, 1, 2, 34}}
        \cup {(ByteModulus - 1) * ByteModulus + b : b \in {0, 1, 2, 3, ByteModulus - 1}}

PridHighHalves == {0, 1, HalfWord - 1}

PridSamples == [hi : PridHighHalves, lo : PridLowHalves]

InitRevision ==
    /\ InitEngineVars
    /\ \E prid \in PridSamples :
          ar = [pc |-> "rev_start", prid |-> prid, revision |-> ""]

\* the call get_cpu_revision(prid)
RevisionLookup ==
    /\ ar.pc = "rev_start"
    /\ ar' = [ar EXCEPT !.pc = "rev_done", !.revision = get_cpu_revision(ar.prid)]
    /\ UNCHANGED engineVars

NextRevision == RevisionLookup

SpecRevision == InitRevision /\ [][NextRevision]_vars

----------------------------------------------------------------------------
(* Specification of main's loop with its tab navigation
   (src/src/main.c:543-562).  The navigation never reads the engine, so the
   hardware reads of the update_measurements call are held at one sample. *)

MainReads ==
    [cpu_count |-> 0, raw |-> 0, fps_count |-> 0, bw_start |-> 0,
     bw_end |-> 0, cast |-> 0]

\* a faulty navigation that stops at the first tab instead of cycling
TabAfterLeft_Clamped(tab, k) ==
    IF k.C_left \/ k.L
    THEN (IF tab = TAB_CPU THEN TAB_CPU ELSE tab - 1)
    ELSE tab

\* if(keys.c[0].C_left || keys.c[0].L)
\*     current_tab = (current_tab - 1 + TAB_COUNT) % TAB_COUNT;
TabAfterLeft(tab, k) ==
    IF k.C_left \/ k.L THEN (tab - 1 + TAB_COUNT) % TAB_COUNT ELSE tab

\* if(keys.c[0].C_right || keys.c[0].R)
\*     current_tab = (current_tab + 1) % TAB_COUNT;
TabAfterRight(tab, k) ==
    IF k.C_right \/ k.R THEN (tab + 1) % TAB_COUNT ELSE tab

\* what get_keys_down() can return in one iteration
KeysDown(tab) ==
    [C_left : BOOLEAN, L : BOOLEAN, C_right : BOOLEAN, R : BOOLEAN,
     start : BOOLEAN, tab_before : {tab}]

\* one iteration of while(1) in main, up to the break on Start
MainLoopIteration ==
    /\ ~keys.start
    /\ measurements.frames_counted < MaxFrames
    /\ CallUpdate(MainReads)
    /\ \E k \in KeysDown(current_tab) :
          /\ keys' = k
          /\ current_tab' = TabAfterRight(TabAfterLeft(current_tab, k), k)
    /\ UNCHANGED <<tv_type, ar>>

NextMain == MainLoopIteration

SpecMain == Init /\ [][NextMain]_vars

----------------------------------------------------------------------------
(* Properties *)

frames_counted == measurements.frames_counted

\* The measurements a call leaves when only the frame counter, the
\* CPU-frequency window and the scanline sampler have acted on engine e.
WithoutDependents(e, tv) ==
    { measure_video_scanline(
          measure_cpu_frequency_continuous(
              [e EXCEPT !.measurements.frames_counted = @ + 1], tv, c).eng,
          raw).measurements : c \in CountSamples, raw \in RawScanlineSamples }

\* C1 (as claimed): any two consecutive firings of
\* measure_cpu_frequency_continuous are exactly 5 update_measurements calls
\* apart.
C1_FiresEveryFiveTicks ==
    (ev.cpu_fired /\ hist.cpu_prev # 0)
        => hist.cpu_fire - hist.cpu_prev = CpuPeriod

\* C2: calculate_fps never fires before frames_counted has reached 60 and its
\* first activation has armed the window; the first firing comes exactly 60
\* ticks after the arming, every later firing exactly 60 ticks after the
\* previous one, each with frames_elapsed = 60, and no 60-tick interval after
\* the arming passes without a firing.
C2_FpsWindowCadence ==
    LET last == IF hist.fps_fire # 0 THEN hist.fps_fire ELSE hist.fps_arm IN
    /\ hist.fps_arm = 0 =>
          /\ frames_counted < FpsPeriod
          /\ hist.fps_fire = 0
          /\ measurements.actual_fps = InitMeasurements(tv_type).actual_fps
    /\ hist.fps_arm # 0 =>
          /\ hist.fps_arm >= FpsPeriod
          /\ frames_counted - last < FpsPeriod
    /\ ev.fps_fired =>
          /\ hist.fps_arm # 0 /\ hist.fps_arm < frames_counted
          /\ ev.fps_frames_elapsed = FpsPeriod
          /\ hist.fps_fire = frames_counted
          /\ hist.fps_fire - (IF hist.fps_prev # 0 THEN hist.fps_prev
                              ELSE hist.fps_arm) = FpsPeriod
    /\ ev.fps_published => ev.fps_fired

C2_Witness ==
    /\ ev.fps_fired
    /\ hist.fps_prev # 0
    /\ ev.fps_published

\* C3: measure_memory_bandwidth passes its gate on exactly the
\* update_measurements calls that make frames_counted a positive multiple of
\* 30; on every other call rdram_bandwidth and last_measure_frame stay as
\* they were.
C3_BandwidthEvery30 ==
    [][ /\ ev'.bw_passed <=>
              (frames_counted' % BwModulo = 0 /\ frames_counted' > 0)
        /\ ~ev'.bw_passed =>
              /\ measurements'.rdram_bandwidth = measurements.rdram_bandwidth
              /\ bw_win' = bw_win
              /\ ~ev'.bw_published ]_vars

C3_Witness ==
    /\ ev.bw_passed
    /\ ev.bw_published
    /\ frames_counted = 2 * BwPeriod
    /\ bw_win.last_measure_frame = frames_counted

\* C4 (as claimed): once an estimate has been published, cpu_freq_min is the
\* smallest and cpu_freq_max the largest estimate published so far (so the
\* bounds do not depend on the order of the estimates).
C4_BoundsOfPublished ==
    hist.npub > 0 =>
        /\ measurements.cpu_freq_min = hist.pub_min
        /\ measurements.cpu_freq_max = hist.pub_max

\* C5: when the bandwidth window passes its gate or the FPS window fires in a
\* call that leaves cpu_freq_current = 0, the call leaves the measurements as
\* if neither dependent window had run (rdram_bandwidth and actual_fps keep
\* their previous values, nothing else is touched), nothing is published and
\* no undefined conversion is executed.
C5_ZeroFrequencySkips ==
    [][ (measurements'.cpu_freq_current = FZero
            /\ (ev'.fps_fired \/ ev'.bw_passed))
        => /\ measurements' \in WithoutDependents(Engine, tv_type)
           /\ measurements'.actual_fps = measurements.actual_fps
           /\ measurements'.rdram_bandwidth = measurements.rdram_bandwidth
           /\ ~ev'.fps_published /\ ~ev'.bw_published /\ ~ev'.undefined ]_vars

C5_Witness ==
    /\ measurements.cpu_freq_current = FZero
    /\ ev.fps_fired
    /\ ev.bw_passed

\* C6 (as claimed): a further call of update_measurements changes no derived
\* metric.
C6_UpdateIsIdempotent ==
    [][ frames_counted >= 1 => measurements' = measurements ]_vars

\* C6 (amended): every call of update_measurements is itself one frame tick:
\* it increments frames_counted by one (and refreshes current_scanline); the
\* CPU-frequency metrics change only in a call where that window fires,
\* rdram_bandwidth only where the bandwidth window publishes, actual_fps only
\* where the FPS window publishes.
C6_OnlyTickAndWindows ==
    [][ /\ frames_counted' = frames_counted + 1
        /\ ~ev'.cpu_fired =>
              /\ measurements'.cpu_freq_current = measurements.cpu_freq_current
              /\ measurements'.cpu_freq_min = measurements.cpu_freq_min
              /\ measurements'.cpu_freq_max = measurements.cpu_freq_max
              /\ measurements'.cpu_cycles_per_frame = measurements.cpu_cycles_per_frame
        /\ ~ev'.bw_published =>
              measurements'.rdram_bandwidth = measurements.rdram_bandwidth
        /\ ~ev'.fps_published =>
              measurements'.actual_fps = measurements.actual_fps ]_vars

C6_Witness ==
    /\ frames_counted >= 2
    /\ ev.cpu_armed
    /\ ~ev.cpu_fired /\ ~ev.bw_passed /\ ~ev.fps_fired
    /\ hist.npub > 0

\* C7: when fewer than Modulus counts elapse between the two samples of a
\* window, the wrapping difference of the samples is the elapsed count,
\* whatever the start value and whether or not COUNT wrapped in between.
C7_DeltaIsElapsed ==
    ar.pc \in {"delta", "cycles", "done"} => ar.count_delta = ar.elapsed

C7_Witness ==
    /\ ar.pc = "done"
    /\ ar.elapsed > 0
    /\ ar.start_count + ar.elapsed >= Modulus
    /\ ar.end_count < ar.start_count

\* C8 (as claimed): for every elapsed counter delta d below the counter's
\* modulus, the true-cycle value the windows use is exactly 2*d.
C8_CyclesAreTwiceDelta ==
    ar.pc \in {"cycles", "done"} => ar.cpu_cycles = CountHalfRate * ar.elapsed

\* C9 (as claimed): two consoles that get the same frame ticks and the same
\* counter readings and differ only in the nominal refresh rate publish the
\* same actual_fps at every firing of the FPS window.
C9_FpsIndependentOfNominalRate ==
    ev.fps_published =>
        measurements.actual_fps = twin.measurements.actual_fps

\* C10 (as claimed): when the window fires with counter delta D after F
\* frames at nominal rate R, the published frequency is ((D*2)/F)*R/1000000.
C10_FrequencyFormula ==
    ar.pc = "done" =>
        ar.cpu_freq = FDiv(FMul(Rat(CountHalfRate * ar.count_delta, ar.frames_elapsed),
                                FloatOf(get_tv_refresh_rate(tv_type))),
                           FloatOf(MegaHz))

\* C11 (as claimed): when the bandwidth window publishes with
\* cpu_freq_current = f > 0 and a measured counter delta C > 0, rdram_bandwidth
\* is the integer part of (4096 / ((C*2)/(f*1000000))) / 1048576.
C11_BandwidthFormula ==
    (ar.pc = "bench_done" /\ FGreater(ar.cpu_freq_current, FZero)
        /\ ar.count_delta > 0)
    => ar.rdram_bandwidth =
          FloatToU32(FDiv(FDiv(FloatOf(BW_TEST_SIZE),
                               FDiv(FloatOf(CountHalfRate * ar.count_delta),
                                    FMul(ar.cpu_freq_current, FloatOf(MegaHz)))),
                          FloatOf(MegaByte)))

\* bit i of the register value x
Bit(x, i) == (x \div (2 ^ i)) % 2

\* C12: after every update_measurements call current_scanline is made of
\* bits 1..10 of the VI_CURRENT value read during that call (the value
\* shifted right by one and masked with 0x3FF), whatever was sampled on the
\* call before, and lies in 0..1023.
C12_ScanlineIsFresh ==
    frames_counted >= 1 =>
        /\ \A i \in 0..9 : Bit(measurements.current_scanline, i) = Bit(ev.raw, i + 1)
        /\ measurements.current_scanline \in 0..ScanlineMask

C12_Witness ==
    /\ frames_counted >= 2
    /\ ev.raw > 2 * ScanlineMask + 1
    /\ measurements.current_scanline # ev.raw \div 2
    /\ twin.measurements.current_scanline = measurements.current_scanline

C14_NonFiringWindowHolds ==
    [][ /\ (ev'.cpu_armed \/ ~ev'.cpu_fired) =>
              /\ measurements'.cpu_freq_current = measurements.cpu_freq_current
              /\ measurements'.cpu_freq_min = measurements.cpu_freq_min
              /\ measurements'.cpu_freq_max = measurements.cpu_freq_max
              /\ measurements'.cpu_cycles_per_frame = measurements.cpu_cycles_per_frame
        /\ ~ev'.bw_passed =>
              measurements'.rdram_bandwidth = measurements.rdram_bandwidth
        /\ ~ev'.fps_fired =>
              measurements'.actual_fps = measurements.actual_fps
        /\ \A c \in CountSamples :
              LET cpu == measure_cpu_frequency_continuous(Engine, tv_type, c)
                  bw == measure_memory_bandwidth(Engine, 0, c, 0)
                  fps == calculate_fps(Engine, c)
              IN  /\ ~cpu.fired => cpu.eng.measurements = measurements
                  /\ ~bw.passed => bw.eng.measurements = measurements
                  /\ ~fps.fired => fps.eng.measurements = measurements ]_vars

C14_Witness ==
    /\ frames_counted = 1
    /\ ev.cpu_armed /\ ~ev.cpu_fired
    /\ ev.calls = <<"measure_cpu_frequency_continuous", "measure_video_scanline">>
    /\ measurements.cpu_freq_current = InitMeasurements(tv_type).cpu_freq_current
    /\ measurements.cpu_freq_min = InitMeasurements(tv_type).cpu_freq_min
    /\ measurements.cpu_freq_max = InitMeasurements(tv_type).cpu_freq_max
    /\ measurements.cpu_cycles_per_frame = InitMeasurements(tv_type).cpu_cycles_per_frame
    /\ measurements.rdram_bandwidth = InitialBandwidth

\* the revision string the documentation assigns to a low byte
RevisionOfByte(b) ==
    IF b = 0 THEN "VR4300 Rev 1.0"
    ELSE IF b = 1 THEN "VR4300 Rev 2.0"
    ELSE IF b = 2 THEN "VR4300 Rev 3.0"
    ELSE "VR4300 Unknown"

\* C15: for every 32-bit prid get_cpu_revision depends only on the low 8
\* bits: it returns "VR4300 Rev 1.0" for 0x00, "VR4300 Rev 2.0" for 0x01,
\* "VR4300 Rev 3.0" for 0x02 and "VR4300 Unknown" for every other low byte,
\* so two prids with equal low bytes give the same result.
C15_RevisionByLowByte ==
    ar.pc = "rev_done" =>
        LET b == ar.prid.lo - ByteModulus * (ar.prid.lo \div ByteModulus) IN
        /\ ar.revision = RevisionOfByte(b)
        /\ \A q \in PridSamples :
              q.lo - ByteModulus * (q.lo \div ByteModulus) = b
                  => get_cpu_revision(q) = ar.revision

C15_Witness ==
    /\ ar.pc = "rev_done"
    /\ ar.prid.hi = HalfWord - 1
    /\ ar.prid.lo = 11 * ByteModulus + 1
    /\ ar.revision = "VR4300 Rev 2.0"

C18_CurrentWithinMinMax ==
    /\ ~FLess(measurements.cpu_freq_current, measurements.cpu_freq_min)
    /\ ~FGreater(measurements.cpu_freq_current, measurements.cpu_freq_max)
    /\ ~IsNaN(measurements.cpu_freq_current)
    /\ ~IsNaN(measurements.cpu_freq_min)
    /\ ~IsNaN(measurements.cpu_freq_max)

C18_Witness ==
    /\ ev.cpu_fired
    /\ hist.npub >= 3
    /\ FLess(measurements.cpu_freq_min, measurements.cpu_freq_max)
    /\ FLess(measurements.cpu_freq_current, measurements.cpu_freq_max)

\* C19: whenever measure_memory_bandwidth passes its gate or calculate_fps
\* fires (ticks where frames_counted is a multiple of 30, respectively 60),
\* the CPU-frequency window has fired earlier in the same
\* update_measurements call, so the cpu_freq_current they read was published
\* in that tick.
C19_DependentsReadFreshFrequency ==
    (ev.bw_passed \/ ev.fps_fired) =>
        /\ ev.cpu_fired
        /\ hist.cpu_fire = frames_counted
        /\ \E i \in 1..Len(ev.calls) :
              /\ ev.calls[i] = "measure_cpu_frequency_continuous"
              /\ \A j \in 1..Len(ev.calls) :
                    ev.calls[j] \in {"measure_memory_bandwidth", "calculate_fps"}
                        => i < j

C19_Witness ==
    /\ ev.bw_published /\ ev.fps_published /\ ev.cpu_fired
    /\ hist.cpu_fire = frames_counted
    /\ frames_counted = 3 * FpsPeriod

\* the iteration pressed L or C-Left and neither R nor C-Right
LeftAlone(k) == (k.L \/ k.C_left) /\ ~(k.R \/ k.C_right)

\* the iteration pressed R or C-Right and neither L nor C-Left
RightAlone(k) == (k.R \/ k.C_right) /\ ~(k.L \/ k.C_left)

\* the tab that precedes, respectively follows, tab t in the cycle
\* CPU, Memory, RCP, Video
PreviousTab(t) ==
    CASE t = TAB_CPU -> TAB_VIDEO
      [] t = TAB_MEMORY -> TAB_CPU
      [] t = TAB_RCP -> TAB_MEMORY
      [] t = TAB_VIDEO -> TAB_RCP

NextTab(t) ==
    CASE t = TAB_CPU -> TAB_MEMORY
      [] t = TAB_MEMORY -> TAB_RCP
      [] t = TAB_RCP -> TAB_VIDEO
      [] t = TAB_VIDEO -> TAB_CPU

\* C17: in every main-loop iteration current_tab is one of the four tabs;
\* pressing L or C-Left alone moves it to the previous tab and pressing R or
\* C-Right alone moves it to the next tab, cyclically (previous of CPU is
\* Video, next of Video is CPU), so an iteration that goes to the previous
\* tab followed by one that goes to the next tab ends on the tab it began on.
C17_TabNavigation ==
    [][ /\ current_tab \in {TAB_CPU, TAB_MEMORY, TAB_RCP, TAB_VIDEO}
        /\ current_tab' \in {TAB_CPU, TAB_MEMORY, TAB_RCP, TAB_VIDEO}
        /\ LeftAlone(keys') => current_tab' = PreviousTab(current_tab)
        /\ RightAlone(keys') => current_tab' = NextTab(current_tab)
        /\ (LeftAlone(keys) /\ RightAlone(keys'))
              => current_tab' = keys.tab_before ]_vars

C17_Witness ==
    /\ frames_counted >= 2
    /\ RightAlone(keys)
    /\ keys.tab_before = TAB_VIDEO
    /\ current_tab = TAB_CPU

====
